---- MODULE Spec2Model ----
(***************************************************************************)
(* The Sevens engine of src/code_skeleton/MyGameMapper.cpp as a state      *)
(* machine: strategy registration, the match loop of runMultipleRounds,    *)
(* dealCards, and playRound one loop iteration (one turn) at a time.       *)
(* Strategies are external: every value selectCardToPlay can return is an  *)
(* input of the Turn action.                                               *)
(***************************************************************************)
EXTENDS Integers, Sequences, FiniteSets, TLC

\* ------------------------------------------------------------- bounds

\* Largest numPlayers passed to a match entry point, and number of slot ids
\* (0 .. MaxPlayers-1) registerStrategy is called with.
MaxPlayers == 3

\* Number of records of the card file that read_cards loads (a prefix of
\* CardFile below).
DeckSize == 4

\* Width in bits of the model's consecutive_passes counter (uint64_t in the
\* code): the counter wraps at 2^PassBits.
PassBits == 2

\* Magnitude of the most negative index a strategy returns: selectCardToPlay
\* returns a value in -MaxNegative .. (hand size), the last standing for every
\* index past the end of the hand.
MaxNegative == 2

\* The match loop's threshold is compared as in the code, but capped at this
\* value so that a match can end within the explored rounds.
ThresholdCap == 3

\* Rounds explored per match, and matches explored per mapper object.
MaxRounds == 2
MaxMatches == 2

\* The tally specification starts from lifetime totals within this distance
\* below the documented and the coded threshold.
TotalWindow == 2

\* Cards in a hand given to a built-in strategy.
MaxHand == 2

\* The complete deck played by the built-in strategies: FullSuitCount suits
\* from Diamonds on, each with every rank from 7 - FullSpan to 7 + FullSpan.
FullSuitCount == 2
FullSpan == 1

\* The complete deck played by arbitrary strategies: the Diamonds from
\* 7 - RunSpan to 7 + RunSpan.
RunSpan == 2

\* ------------------------------------------------- program constants

NumSuits == 4
MaxRank == 13
AnchorSuit == 1
AnchorRank == 7
\* uint64_t winner = UINT64_MAX: "no winner"; any value that is no player id.
UINT64_MAX == 2147483647
\* const uint64_t MAX_ACCUMULATED_CARDS = 5000;
MAX_ACCUMULATED_CARDS == 5000
\* selectCardToPlay's pass sentinel: the code tests card_idx == -1.
PassSentinel == -1
\* "Game ends when a player accumulates 50 cards" (the class documentation).
DocumentedThreshold == 50

Suits == 0 .. (NumSuits - 1)
Ranks == 1 .. MaxRank
Card(s, r) == [suit |-> s, rank |-> r]
AllCards == { Card(s, r) : s \in Suits, r \in Ranks }
Anchor == Card(AnchorSuit, AnchorRank)

\* The records of the card file, in file order (suit 1 = Diamonds,
\* 2 = Hearts, 0 = Clubs).  The short prefixes hold the 9 and 10 of Diamonds
\* without the 8, so rounds can block.
CardFile ==
    << Card(1, 7), Card(1, 6), Card(1, 9), Card(1, 10), Card(2, 7),
       Card(1, 5), Card(2, 8), Card(1, 8), Card(0, 7), Card(2, 6) >>

Min(a, b) == IF a < b THEN a ELSE b

\* ----------------------------------------------------------- helpers

Range(f) == { f[x] : x \in DOMAIN f }

\* All orderings of a finite set, as sequences.
RECURSIVE Perms(_)
Perms(S) ==
    IF S = {} THEN { <<>> }
    ELSE UNION { { <<x>> \o p : p \in Perms(S \ {x}) } : x \in S }

\* std::sort of a set of distinct ids, ascending.
RECURSIVE SortedSeq(_)
SortedSeq(S) ==
    IF S = {} THEN <<>>
    ELSE LET m == CHOOSE x \in S : \A y \in S : x <= y
         IN  <<m>> \o SortedSeq(S \ {m})

\* An erase that drops the last element whatever k is.
Erase_Last(seq, k) == SubSeq(seq, 1, Len(seq) - 1)

\* vector::erase(begin() + k), k a 0-based position of seq.
Erase(seq, k) ==
    [ i \in 1 .. (Len(seq) - 1) |-> IF i <= k THEN seq[i] ELSE seq[i + 1] ]

\* map[key] = value, creating the entry when it is missing.
Put(map, key, value) ==
    [ k \in (DOMAIN map) \cup {key} |-> IF k = key THEN value ELSE map[k] ]

\* map[key] as operator[] reads it: a missing entry is value-initialised.
Get(map, key, default) == IF key \in DOMAIN map THEN map[key] ELSE default

\* ---------------------------------------------------------- variables

VARIABLES
    pc,                 \* position of the program: idle | round | turn | tally | rule | crashed
    cards_hashmap,      \* id -> Card, as the sequence of the file's records
    table_layout,       \* suit -> (rank -> bool), a sparse nested map
    player_strategies,  \* the ids that have a strategy registered, in the map's iteration order
    initialized,        \* id -> arguments of the initialize calls its strategy got for the current match
    player_hands,       \* id -> vector<Card>
    player_total_cards, \* id -> lifetime accumulated cards
    player_rounds_won,  \* id -> rounds won
    total_rounds,
    matches,            \* matches started on this mapper object
    cards,              \* dealCards' shuffled vector (empty once dealCards' frame is gone)
    player_order,       \* playRound's locals
    current_player_idx,
    consecutive_passes,
    winner,
    last_turn,          \* the last turn: the acting player, what selectCardToPlay returned, the branch taken
    notifications,      \* the observe* calls of the last turn, in delivery order
    result,             \* the last entry-point call of the host and what it returned or threw
    probe               \* the last isPlayable query of the rule specification

vars ==
    << pc, cards_hashmap, table_layout, player_strategies, initialized,
       player_hands, player_total_cards, player_rounds_won, total_rounds,
       matches, cards, player_order, current_player_idx, consecutive_passes,
       winner, last_turn, notifications, result, probe >>

NoProbe == [asked |-> FALSE, card |-> [suit |-> -1, rank |-> -1], playable |-> FALSE]
NoCard == [suit |-> -1, rank |-> -1]
\* No selectCardToPlay call: nothing was shown to a strategy.
NoInput == [hand |-> <<>>, table |-> <<>>]
\* The turn log before the first turn of a round.
NoTurn ==
    [player |-> UINT64_MAX, card_idx |-> PassSentinel, outcome |-> "none",
     shown |-> NoInput]
\* No entry point has been called since the last other call of the host.
NoResult == [call |-> "none", kind |-> "none", standings |-> <<>>, what |-> ""]

\* ---------------------------------------------------------- the rule

\* table_layout.count(suit) > 0 && table_layout.at(suit).count(rank) > 0 &&
\* table_layout.at(suit).at(rank)
OnTable(layout, suit, rank) ==
    /\ suit \in DOMAIN layout
    /\ rank \in DOMAIN layout[suit]
    /\ layout[suit][rank]

\* isPlayable with the two neighbour tests joined by && instead of ||.
isPlayable_BothNeighbours(card, layout) ==
    IF card.rank = 7
    THEN ~OnTable(layout, card.suit, card.rank)
    ELSE LET higher == card.rank < 13 /\ OnTable(layout, card.suit, card.rank + 1)
             lower  == card.rank > 1 /\ OnTable(layout, card.suit, card.rank - 1)
         IN  higher /\ lower

\* isPlayable without the test of the lower neighbour.
isPlayable_HigherOnly(card, layout) ==
    IF card.rank = 7
    THEN ~OnTable(layout, card.suit, card.rank)
    ELSE card.rank < 13 /\ OnTable(layout, card.suit, card.rank + 1)

\* isPlayable with the test on a 7 inverted: playable iff already on the table.
isPlayable_SevenOnTable(card, layout) ==
    IF card.rank = 7
    THEN OnTable(layout, card.suit, card.rank)
    ELSE LET higher == card.rank < 13 /\ OnTable(layout, card.suit, card.rank + 1)
             lower  == card.rank > 1 /\ OnTable(layout, card.suit, card.rank - 1)
         IN  higher \/ lower

\* isPlayable accepting every card.
isPlayable_Always(card, layout) == TRUE

isPlayable(card, layout) ==
    IF card.rank = 7
    THEN ~OnTable(layout, card.suit, card.rank)
    ELSE LET higher == card.rank < 13 /\ OnTable(layout, card.suit, card.rank + 1)
             lower  == card.rank > 1 /\ OnTable(layout, card.suit, card.rank - 1)
         IN  higher \/ lower

\* A reset that only turns the 7 of Diamonds face-up on the table as it is.
ResetLayout_KeepsTable ==
    Put(table_layout, AnchorSuit,
        Put(Get(table_layout, AnchorSuit, <<>>), AnchorRank, TRUE))

\* resetTableLayout(): every cell false, then the 7 of Diamonds true.
ResetLayout ==
    [ s \in Suits |-> [ r \in Ranks |-> (s = AnchorSuit /\ r = AnchorRank) ] ]

\* table_layout[suit][rank] = true
SetCell(layout, suit, rank) ==
    Put(layout, suit, Put(Get(layout, suit, <<>>), rank, TRUE))

\* ------------------------------------------------------------- state

StrategyIds == Range(player_strategies)
PlayerIds == 0 .. (MaxPlayers - 1)

\* The threshold runMultipleRounds compares the lifetime totals against.
Threshold == Min(MAX_ACCUMULATED_CARDS, ThresholdCap)

PassModulus == 2 ^ PassBits

Init ==
    /\ pc = "idle"
    /\ cards_hashmap = <<>>
    /\ table_layout = <<>>
    /\ player_strategies = <<>>
    /\ initialized = <<>>
    /\ player_hands = <<>>
    /\ player_total_cards = <<>>
    /\ player_rounds_won = <<>>
    /\ total_rounds = 0
    /\ matches = 0
    /\ cards = <<>>
    /\ player_order = <<>>
    /\ current_player_idx = 0
    /\ consecutive_passes = 0
    /\ winner = UINT64_MAX
    /\ last_turn = NoTurn
    /\ notifications = <<>>
    /\ result = NoResult
    /\ probe = NoProbe

roundLocals == << player_order, current_player_idx, consecutive_passes, winner >>
turnLog == << last_turn, notifications >>
statistics == << player_total_cards, player_rounds_won, total_rounds >>

\* ------------------------------------------------------ registration

\* The effect of registerStrategy(playerID, strategy) on the strategy map:
\* the key is inserted if new; an unordered_map's iteration order after an
\* insertion is unspecified.
StrategiesAfterRegister(strategies, playerID) ==
    IF playerID \in Range(strategies)
    THEN { strategies }
    ELSE Perms(Range(strategies) \cup {playerID})

\* strategy->initialize(playerID) on the object now registered for playerID;
\* fresh says whether that object replaces the one counted so far.
InitializeCall(log, playerID, fresh) ==
    Put(log, playerID,
        IF fresh THEN <<playerID>> ELSE Append(Get(log, playerID, <<>>), playerID))

\* The statistics part of registerStrategy: entries created at 0 if missing.
StatsAfterRegister(stats, playerID) ==
    IF playerID \in DOMAIN stats THEN stats ELSE Put(stats, playerID, 0)

\* registerStrategy(playerID, strategy), called by the host between matches
\* with a new strategy object.
RegisterStrategy(playerID) ==
    /\ pc = "idle"
    /\ player_strategies' \in StrategiesAfterRegister(player_strategies, playerID)
    /\ initialized' = InitializeCall(initialized, playerID, TRUE)
    /\ player_total_cards' = StatsAfterRegister(player_total_cards, playerID)
    /\ player_rounds_won' = StatsAfterRegister(player_rounds_won, playerID)
    /\ result' = NoResult
    /\ UNCHANGED << pc, cards_hashmap, table_layout, player_hands, total_rounds,
                    matches, cards, roundLocals, turnLog, probe >>

\* read_cards(filename): the map is cleared and refilled with the records of
\* the file, ids counting from 0.
ReadCards ==
    /\ pc = "idle"
    /\ cards_hashmap' = SubSeq(CardFile, 1, Min(DeckSize, Len(CardFile)))
    /\ result' = NoResult
    /\ UNCHANGED << pc, table_layout, player_strategies, initialized, player_hands,
                    statistics, matches, cards, roundLocals, turnLog, probe >>

\* read_game(filename): resetTableLayout().
ReadGame ==
    /\ pc = "idle"
    /\ table_layout' = ResetLayout
    /\ result' = NoResult
    /\ UNCHANGED << pc, cards_hashmap, player_strategies, initialized, player_hands,
                    statistics, matches, cards, roundLocals, turnLog, probe >>

\* ensureStrategies(numPlayers): ids 0 .. numPlayers-1 in ascending order,
\* each registered (with a RandomStrategy) only if it has no strategy yet.
\* The result is a set of possible (strategies, initialized, totals, won).
RECURSIVE EnsureFrom(_, _, _)
EnsureFrom(i, numPlayers, st) ==
    IF i >= numPlayers THEN { st }
    ELSE IF i \in Range(st.strategies)
    THEN EnsureFrom(i + 1, numPlayers, st)
    ELSE UNION { EnsureFrom(i + 1, numPlayers,
                     [ strategies |-> order,
                       initialized |-> InitializeCall(st.initialized, i, TRUE),
                       totals |-> StatsAfterRegister(st.totals, i),
                       won |-> StatsAfterRegister(st.won, i) ])
                 : order \in StrategiesAfterRegister(st.strategies, i) }

ensureStrategies(numPlayers) ==
    EnsureFrom(0, numPlayers,
               [ strategies |-> player_strategies, initialized |-> initialized,
                 totals |-> player_total_cards, won |-> player_rounds_won ])

\* The name of the numPlayers entry point that runs runMultipleRounds(displayOutput).
EntryPoint(displayOutput) ==
    IF displayOutput THEN "compute_and_display_game" ELSE "compute_game_progress"

\* A reset that leaves the statistics as the last match left them.
ZeroedStatistics_Kept(stats) == stats

\* runMultipleRounds' "Reset statistics": pair.second = 0 for every entry.
ZeroedStatistics(stats) == [ id \in DOMAIN stats |-> 0 ]

\* compute_game_progress(numPlayers) / compute_and_display_game(numPlayers) up
\* to the head of the match loop: ensureStrategies, then runMultipleRounds'
\* prologue (total_rounds = 0, every statistics entry reset to 0).
StartMatch(numPlayers, displayOutput) ==
    /\ pc = "idle"
    /\ matches < MaxMatches
    /\ \E st \in ensureStrategies(numPlayers) :
          /\ player_strategies' = st.strategies
          /\ initialized' = st.initialized
          /\ player_total_cards' = ZeroedStatistics(st.totals)
          /\ player_rounds_won' = ZeroedStatistics(st.won)
    /\ total_rounds' = 0
    /\ matches' = matches + 1
    /\ pc' = "round"
    /\ result' = [call |-> EntryPoint(displayOutput), kind |-> "running",
                  standings |-> <<>>, what |-> ""]
    /\ UNCHANGED << cards_hashmap, table_layout, player_hands, cards,
                    roundLocals, turnLog, probe >>

\* ------------------------------------------------------------ dealing

\* The cards dealCards shuffles: every record of cards_hashmap but the
\* 7 of Diamonds.
DealtCards == { c \in Range(cards_hashmap) : ~(c.suit = 1 /\ c.rank = 7) }

\* The dealing loop with cards[i] going to player (i + 1) % n.
Deal_OffByOne(shuffled, n) ==
    LET positions(id) == SelectSeq([ j \in 1 .. Len(shuffled) |-> j ],
                                   LAMBDA j : j % n = id)
    IN  [ id \in { i \in 0 .. (n - 1) : positions(i) # <<>> } |->
            [ k \in 1 .. Len(positions(id)) |-> shuffled[positions(id)[k]] ] ]

\* A dealing that creates slot 0's hand but gives every card to the others.
Deal_NothingToFirst(shuffled, n) ==
    [ id \in { i \in 0 .. (n - 1) : i < Len(shuffled) } |->
        IF id = 0 THEN <<>>
        ELSE [ k \in 1 .. ((Len(shuffled) - id + n - 1) \div n) |->
                 shuffled[id + (k - 1) * n + 1] ] ]

\* player_hands after the dealing loop: cards[i] goes to player i % n.
Deal(shuffled, n) ==
    [ id \in { i \in 0 .. (n - 1) : i < Len(shuffled) } |->
        [ k \in 1 .. ((Len(shuffled) - id + n - 1) \div n) |->
            shuffled[id + (k - 1) * n + 1] ] ]

\* One iteration of runMultipleRounds' loop up to the head of playRound's
\* loop: total_rounds++, resetTableLayout, dealCards, playRound's prologue.
\* i % player_strategies.size() with no strategy registered, and
\* player_order[0] with no hand dealt, are undefined: the program is taken to
\* stop there.
BeginRound ==
    /\ pc = "round"
    /\ total_rounds < MaxRounds
    /\ total_rounds' = total_rounds + 1
    /\ table_layout' = ResetLayout
    /\ \E shuffled \in Perms(DealtCards) :
          LET n == Len(player_strategies)
              undefined == (n = 0 /\ shuffled # <<>>) \/ shuffled = <<>>
              hands == IF undefined THEN <<>> ELSE Deal(shuffled, n)
          IN  /\ cards' = shuffled
              /\ player_hands' = hands
              /\ pc' = IF undefined THEN "crashed" ELSE "turn"
              /\ player_order' = SortedSeq(DOMAIN hands)
    /\ current_player_idx' = 0
    /\ consecutive_passes' = 0
    /\ winner' = UINT64_MAX
    /\ last_turn' = NoTurn
    /\ notifications' = <<>>
    /\ UNCHANGED << cards_hashmap, player_strategies, initialized,
                    player_total_cards, player_rounds_won, matches, result, probe >>

\* -------------------------------------------------------------- turns

\* for (pair : player_strategies) if (pair.first != playerID) pair.second->observeX(...)
Notify(playerID, type, card) ==
    LET others == SelectSeq(player_strategies, LAMBDA id : id # playerID)
    IN  [ i \in 1 .. Len(others) |->
            [ to |-> others[i], type |-> type, player |-> playerID, card |-> card ] ]

\* The deadlock scan looking at the acting player's hand only.
gameBlocked_OwnHandOnly ==
    LET id == player_order[current_player_idx + 1]
    IN  \A i \in 1 .. Len(player_hands[id]) :
            ~isPlayable(player_hands[id][i], table_layout)

\* The deadlock scan: no card of any hand is playable.
gameBlocked ==
    \A id \in DOMAIN player_hands :
        \A i \in 1 .. Len(player_hands[id]) :
            ~isPlayable(player_hands[id][i], table_layout)

\* The rotation that leaves the turn with the same player.
NextPlayerIdx_Stays == current_player_idx

\* current_player_idx = (current_player_idx + 1) % player_order.size()
NextPlayerIdx == (current_player_idx + 1) % Len(player_order)

\* selectCardToPlay called with the cards of every hand of the round.
StrategyInput_AllHands(playerID) ==
    [hand |-> SelectSeq(cards_hashmap,
                        LAMBDA c : \E id \in DOMAIN player_hands :
                                      c \in Range(player_hands[id])),
     table |-> table_layout]

\* The arguments of strategy->selectCardToPlay(player_hands[playerID], table_layout).
StrategyInput(playerID) ==
    [hand |-> player_hands[playerID], table |-> table_layout]

\* What a strategy can return for a hand: every index of the hand, the pass
\* sentinel, the other negative values down to -MaxNegative, and Len(hand)
\* for every index past the end.
StrategyReturns(hand) == (0 - MaxNegative) .. Len(hand)

\* The branch card_idx == -1 || card_idx >= hand.size().
PassTurn(playerID, ret) ==
    LET passes == (consecutive_passes + 1) % PassModulus
        blocked == passes >= Len(player_order) /\ gameBlocked
    IN  /\ notifications' = Notify(playerID, "pass", NoCard)
        /\ consecutive_passes' = passes
        /\ last_turn' = [player |-> playerID, card_idx |-> ret, outcome |-> "pass",
                         shown |-> StrategyInput(playerID)]
        /\ pc' = IF blocked THEN "tally" ELSE "turn"
        /\ current_player_idx' = IF blocked THEN current_player_idx ELSE NextPlayerIdx
        /\ UNCHANGED << table_layout, player_hands, winner >>

\* The else branch once played_card is read: a playable card is put on the
\* table, announced and erased (rest is the hand after the erase); any
\* other card is announced as a pass.
PlayTurn(playerID, ret, played_card, rest, how) ==
    IF isPlayable(played_card, table_layout)
    THEN /\ table_layout' = SetCell(table_layout, played_card.suit, played_card.rank)
         /\ notifications' = Notify(playerID, "move", played_card)
         /\ player_hands' = [player_hands EXCEPT ![playerID] = rest]
         /\ last_turn' = [player |-> playerID, card_idx |-> ret, outcome |-> how,
                          shown |-> StrategyInput(playerID)]
         /\ IF rest = <<>>
            THEN /\ winner' = playerID
                 /\ pc' = "tally"
                 /\ UNCHANGED << consecutive_passes, current_player_idx >>
            ELSE /\ consecutive_passes' = 0
                 /\ current_player_idx' = NextPlayerIdx
                 /\ pc' = "turn"
                 /\ UNCHANGED winner
    ELSE /\ notifications' = Notify(playerID, "pass", NoCard)
         /\ consecutive_passes' = (consecutive_passes + 1) % PassModulus
         /\ last_turn' = [player |-> playerID, card_idx |-> ret, outcome |-> "invalid",
                          shown |-> StrategyInput(playerID)]
         /\ current_player_idx' = NextPlayerIdx
         /\ pc' = "turn"
         /\ UNCHANGED << table_layout, player_hands, winner >>

\* The program stops (a crash) in the middle of a turn.
CrashTurn(playerID, ret) ==
    /\ pc' = "crashed"
    /\ last_turn' = [player |-> playerID, card_idx |-> ret, outcome |-> "crash",
                     shown |-> IF playerID \in StrategyIds
                               THEN StrategyInput(playerID) ELSE NoInput]
    /\ notifications' = <<>>
    /\ UNCHANGED << table_layout, player_hands, roundLocals >>

\* player_hands[playerID][card_idx] and erase(begin() + card_idx) with a
\* negative card_idx other than -1 are undefined: the read yields the bytes
\* before the vector's buffer (taken to be any card of the deck, such as one
\* of a neighbouring hand), the erase shifts the whole hand down by one, or
\* the program stops.
UndefinedTurn(playerID, ret) ==
    \/ CrashTurn(playerID, ret)
    \/ \E garbage \in Range(cards_hashmap) :
          PlayTurn(playerID, ret, garbage, Tail(player_hands[playerID]), "garbage")

\* One iteration of playRound's loop for the strategy returning ret.
TakeTurn(playerID, ret) ==
    LET hand == player_hands[playerID]
    IN  IF ret = -1 \/ ret >= Len(hand)
        THEN PassTurn(playerID, ret)
        ELSE IF ret >= 0
        THEN PlayTurn(playerID, ret, hand[ret + 1], Erase(hand, ret), "play")
        ELSE UndefinedTurn(playerID, ret)

\* The loop's "skip players who have emptied their hand" branch.
SkipTurn ==
    /\ current_player_idx' = NextPlayerIdx
    /\ UNCHANGED << pc, table_layout, player_hands, player_order,
                    consecutive_passes, winner, turnLog >>

Turn ==
    /\ pc = "turn"
    /\ LET playerID == player_order[current_player_idx + 1]
       IN  IF player_hands[playerID] = <<>>
           THEN SkipTurn
           ELSE /\ IF playerID \notin StrategyIds
                   THEN CrashTurn(playerID, PassSentinel)
                   ELSE \E ret \in StrategyReturns(player_hands[playerID]) :
                            TakeTurn(playerID, ret)
                /\ UNCHANGED player_order
    /\ cards' = <<>>
    /\ UNCHANGED << cards_hashmap, player_strategies, initialized, statistics,
                    matches, result, probe >>

\* ------------------------------------------------------------- tally

\* The rounds-won update crediting every slot of the map when a round is won.
RoundsWonAfter_EveryPlayer(won, roundWinner) ==
    IF roundWinner # UINT64_MAX
    THEN [ id \in DOMAIN won |-> won[id] + 1 ]
    ELSE won

\* The rounds-won update crediting the last player to act when the round
\* ended with no winner.
RoundsWonAfter_CreditsLastActor(won, roundWinner) ==
    LET credited == IF roundWinner # UINT64_MAX
                    THEN roundWinner
                    ELSE player_order[current_player_idx + 1]
    IN  Put(won, credited, Get(won, credited, 0) + 1)

\* if (roundWinner != UINT64_MAX) player_rounds_won[roundWinner]++
RoundsWonAfter_CountsBlockedRounds(won, roundWinner) ==
    Put(won, roundWinner, Get(won, roundWinner, 0) + 1)

RoundsWonAfter(won, roundWinner) ==
    IF roundWinner # UINT64_MAX
    THEN Put(won, roundWinner, Get(won, roundWinner, 0) + 1)
    ELSE won

\* The totals update with = in place of +=.
TotalsAfter_Overwrite(totals, hands) ==
    [ id \in (DOMAIN totals) \cup (DOMAIN hands) |->
        IF id \in DOMAIN hands THEN Len(hands[id]) ELSE totals[id] ]

\* for (pair : player_hands) player_total_cards[pair.first] += pair.second.size()
TotalsAfter(totals, hands) ==
    [ id \in (DOMAIN totals) \cup (DOMAIN hands) |->
        Get(totals, id, 0) + (IF id \in DOMAIN hands THEN Len(hands[id]) ELSE 0) ]

\* The threshold test with > in place of >=.
gameOver_StrictlyAbove(totals, hands, limit) ==
    \E id \in DOMAIN hands : totals[id] > limit

\* The flag gameOver after the tally loop: set when a slot that held a hand
\* this round has a total of at least limit.
gameOver(totals, hands, limit) ==
    \E id \in DOMAIN hands : totals[id] >= limit

\* The standings with the sort's comparison reversed (a.second > b.second).
getFinalStandings_Descending(totals) ==
    { [ i \in 1 .. Len(cardCounts) |-> << cardCounts[i], i >> ] :
        cardCounts \in { order \in Perms(DOMAIN totals) :
                            \A i, j \in 1 .. Len(order) :
                                i < j => totals[order[i]] >= totals[order[j]] } }

\* getFinalStandings(): the entries of player_total_cards sorted by total
\* ascending with std::sort (equal totals end up in any order), then paired
\* with the ranks 1, 2, ...  The result is the set of possible lists.
getFinalStandings(totals) ==
    { [ i \in 1 .. Len(cardCounts) |-> << cardCounts[i], i >> ] :
        cardCounts \in { order \in Perms(DOMAIN totals) :
                            \A i, j \in 1 .. Len(order) :
                                i < j => totals[order[i]] <= totals[order[j]] } }

\* runMultipleRounds after playRound returned roundWinner (held in winner):
\* the winner's rounds-won, every dealt hand's size added to its total, the
\* test against limit; then the next iteration or the return of the standings.
Tally(limit) ==
    /\ pc = "tally"
    /\ player_rounds_won' = RoundsWonAfter(player_rounds_won, winner)
    /\ LET totals == TotalsAfter(player_total_cards, player_hands)
           over == gameOver(totals, player_hands, limit)
       IN  /\ player_total_cards' = totals
           /\ pc' = IF over THEN "idle" ELSE "round"
           /\ initialized' = IF over
                             THEN [ id \in DOMAIN initialized |-> <<>> ]
                             ELSE initialized
           /\ IF over
              THEN \E standings \in getFinalStandings(totals) :
                      result' = [call |-> result.call, kind |-> "standings",
                                 standings |-> standings, what |-> ""]
              ELSE result' = result
    /\ last_turn' = NoTurn
    /\ notifications' = <<>>
    /\ UNCHANGED << cards_hashmap, table_layout, player_strategies, player_hands,
                    total_rounds, matches, cards, roundLocals, probe >>

\* The tally with the model's threshold.
EndRound == Tally(Threshold)

\* ------------------------------------------------- name-based entries

\* The names a host passes to the name-indexed entry points.
PlayerNames == { "Ada", "Bob" }
NameLists == UNION { [ 1 .. n -> PlayerNames ] : n \in 0 .. MaxPlayers }

\* The name-indexed entry points returning an empty list instead of throwing.
NameBasedOutcome_EmptyList(playerNames, displayOutput) ==
    [ call |-> IF displayOutput THEN "compute_and_display_game(names)"
               ELSE "compute_game_progress(names)",
      kind |-> "standings",
      standings |-> <<>>,
      what |-> "" ]

\* compute_game_progress(playerNames) / compute_and_display_game(playerNames):
\* (void)playerNames; throw std::runtime_error(...).
NameBasedOutcome(playerNames, displayOutput) ==
    [ call |-> IF displayOutput THEN "compute_and_display_game(names)"
               ELSE "compute_game_progress(names)",
      kind |-> "error",
      standings |-> <<>>,
      what |-> IF displayOutput THEN "Name-based game display not implemented"
               ELSE "Name-based game progress not implemented" ]

NameBasedEntry(playerNames, displayOutput) ==
    /\ pc = "idle"
    /\ result' = NameBasedOutcome(playerNames, displayOutput)
    /\ UNCHANGED << pc, cards_hashmap, table_layout, player_strategies, initialized,
                    player_hands, statistics, matches, cards, roundLocals, turnLog,
                    probe >>

\* ------------------------------------------------------ specification

Next ==
    \/ \E playerID \in PlayerIds : RegisterStrategy(playerID)
    \/ ReadCards
    \/ ReadGame
    \/ \E numPlayers \in 0 .. MaxPlayers, displayOutput \in BOOLEAN :
          StartMatch(numPlayers, displayOutput)
    \/ \E playerNames \in NameLists, displayOutput \in BOOLEAN :
          NameBasedEntry(playerNames, displayOutput)
    \/ BeginRound
    \/ Turn
    \/ EndRound

Spec == Init /\ [][Next]_vars

\* ------------------------------------------- the rule as a function

\* Rows of a sparse table: entries (present true, present false, or
\* missing) for the ranks within one step of a centre rank.
SparseRows ==
    UNION { UNION { [ D -> BOOLEAN ] : D \in SUBSET ({c - 1, c, c + 1} \cap Ranks) }
            : c \in Ranks }

\* Tables isPlayable is applied to: the empty map, one sparse row alone, and
\* a reset table with one row replaced by a sparse row.
SparseTables ==
    { <<>> }
    \cup { Put(<<>>, s, row) : s \in Suits, row \in SparseRows }
    \cup { Put(ResetLayout, s, row) : s \in Suits, row \in SparseRows }

InitRule ==
    /\ pc = "rule"
    /\ cards_hashmap = <<>>
    /\ table_layout \in SparseTables
    /\ player_strategies = <<>>
    /\ initialized = <<>>
    /\ player_hands = <<>>
    /\ player_total_cards = <<>>
    /\ player_rounds_won = <<>>
    /\ total_rounds = 0
    /\ matches = 0
    /\ cards = <<>>
    /\ player_order = <<>>
    /\ current_player_idx = 0
    /\ consecutive_passes = 0
    /\ winner = UINT64_MAX
    /\ last_turn = NoTurn
    /\ notifications = <<>>
    /\ result = NoResult
    /\ probe = NoProbe

\* isPlayable(card) is called once on the table as it stands.
ProbeRule(card) ==
    /\ pc = "rule"
    /\ ~probe.asked
    /\ probe' = [asked |-> TRUE, card |-> card, playable |-> isPlayable(card, table_layout)]
    /\ UNCHANGED << pc, cards_hashmap, table_layout, player_strategies, initialized,
                    player_hands, statistics, matches, cards, roundLocals, turnLog,
                    result >>

NextRule == \E card \in AllCards : ProbeRule(card)

RuleSpec == InitRule /\ [][NextRule]_vars

\* ------------------------------------------------ one play on a table

\* A row of the table of a round in progress: no card of the suit face-up,
\* or the ranks lo .. hi around the 7 face-up.
RunRows ==
    { [ r \in Ranks |-> FALSE ] }
    \cup { [ r \in Ranks |-> lo <= r /\ r <= hi ] : lo \in 1 .. 7, hi \in 7 .. MaxRank }

\* Tables of a round in progress: a run of Diamonds holding the anchor, at
\* most one other suit opened, every other cell false.
RunTables ==
    { [ s \in Suits |-> IF s = AnchorSuit THEN diamonds
                        ELSE IF s = other THEN row
                        ELSE [ r \in Ranks |-> FALSE ] ] :
        diamonds \in { row \in RunRows : row[AnchorRank] },
        other \in Suits \ { AnchorSuit },
        row \in RunRows }

InitPlay ==
    /\ pc = "rule"
    /\ cards_hashmap = <<>>
    /\ table_layout \in RunTables
    /\ player_strategies = <<>>
    /\ initialized = <<>>
    /\ player_hands = <<>>
    /\ player_total_cards = <<>>
    /\ player_rounds_won = <<>>
    /\ total_rounds = 0
    /\ matches = 0
    /\ cards = <<>>
    /\ player_order = <<>>
    /\ current_player_idx = 0
    /\ consecutive_passes = 0
    /\ winner = UINT64_MAX
    /\ last_turn = NoTurn
    /\ notifications = <<>>
    /\ result = NoResult
    /\ probe = NoProbe

\* The table part of one valid play: if (isPlayable(played_card))
\* table_layout[played_card.suit][played_card.rank] = true.
PlayOnTable(card) ==
    /\ pc = "rule"
    /\ ~probe.asked
    /\ isPlayable(card, table_layout)
    /\ table_layout' = SetCell(table_layout, card.suit, card.rank)
    /\ probe' = [asked |-> TRUE, card |-> card, playable |-> TRUE]
    /\ UNCHANGED << pc, cards_hashmap, player_strategies, initialized,
                    player_hands, statistics, matches, cards, roundLocals, turnLog,
                    result >>

NextPlay == \E card \in AllCards : PlayOnTable(card)

PlaySpec == InitPlay /\ [][NextPlay]_vars

\* ------------------------------------- matches on a gap in the slot ids

\* The host has registered one strategy under the first id past the players
\* a match asks for, and read a card file one record longer than DeckSize;
\* ensureStrategies then leaves a gap in the registered ids.
SparseId == MaxPlayers
SparseDeckSize == DeckSize + 1

InitSparse ==
    /\ pc = "idle"
    /\ cards_hashmap = SubSeq(CardFile, 1, Min(SparseDeckSize, Len(CardFile)))
    /\ table_layout = <<>>
    /\ player_strategies = <<SparseId>>
    /\ initialized = InitializeCall(<<>>, SparseId, TRUE)
    /\ player_hands = <<>>
    /\ player_total_cards = StatsAfterRegister(<<>>, SparseId)
    /\ player_rounds_won = StatsAfterRegister(<<>>, SparseId)
    /\ total_rounds = 0
    /\ matches = 0
    /\ cards = <<>>
    /\ player_order = <<>>
    /\ current_player_idx = 0
    /\ consecutive_passes = 0
    /\ winner = UINT64_MAX
    /\ last_turn = NoTurn
    /\ notifications = <<>>
    /\ result = NoResult
    /\ probe = NoProbe

\* The host only runs matches.
NextSparse ==
    \/ \E numPlayers \in 0 .. MaxPlayers, displayOutput \in BOOLEAN :
          StartMatch(numPlayers, displayOutput)
    \/ BeginRound
    \/ Turn
    \/ EndRound

SparseSpec == InitSparse /\ [][NextSparse]_vars

\* ------------------------------------------------ built-in strategies

\* GreedyStrategy::selectCardToPlay from index i on: the first card that
\* passes the strategy's own tests.
RECURSIVE GreedyFrom(_, _, _)
GreedyFrom(hand, tableLayout, i) ==
    IF i >= Len(hand) THEN PassSentinel
    ELSE LET card == hand[i + 1]
         IN  IF card.rank = 7
             THEN IF OnTable(tableLayout, card.suit, card.rank)
                  THEN GreedyFrom(hand, tableLayout, i + 1)
                  ELSE i
             ELSE LET higher == card.rank < 13
                                /\ OnTable(tableLayout, card.suit, card.rank + 1)
                      lower  == card.rank > 1
                                /\ OnTable(tableLayout, card.suit, card.rank - 1)
                  IN  IF higher \/ lower THEN i
                      ELSE GreedyFrom(hand, tableLayout, i + 1)

\* A greedy strategy that offers its first card without looking at the table.
GreedyStrategy_selectCardToPlay_FirstCard(hand, tableLayout) ==
    IF hand = <<>> THEN PassSentinel ELSE 0

GreedyStrategy_selectCardToPlay(hand, tableLayout) ==
    IF hand = <<>> THEN PassSentinel ELSE GreedyFrom(hand, tableLayout, 0)

\* RandomStrategy::selectCardToPlay's vector playableCardIndices, filled
\* from index i on.
RECURSIVE playableCardIndices(_, _, _)
playableCardIndices(hand, tableLayout, i) ==
    IF i >= Len(hand) THEN <<>>
    ELSE LET card == hand[i + 1]
             rest == playableCardIndices(hand, tableLayout, i + 1)
         IN  IF card.rank = 7
             THEN IF OnTable(tableLayout, card.suit, card.rank)
                  THEN rest
                  ELSE <<i>> \o rest
             ELSE LET higher == card.rank < 13
                                /\ OnTable(tableLayout, card.suit, card.rank + 1)
                      lower  == card.rank > 1
                                /\ OnTable(tableLayout, card.suit, card.rank - 1)
                  IN  IF higher \/ lower THEN <<i>> \o rest ELSE rest

\* A RandomStrategy that always passes.
RandomStrategy_selectCardToPlay_AlwaysPasses(hand, tableLayout) == { PassSentinel }

\* The values RandomStrategy::selectCardToPlay can return: any entry of
\* playableCardIndices, whatever the generator draws.
RandomStrategy_selectCardToPlay(hand, tableLayout) ==
    IF hand = <<>> THEN { PassSentinel }
    ELSE LET indices == playableCardIndices(hand, tableLayout, 0)
         IN  IF indices = <<>> THEN { PassSentinel }
             ELSE { indices[randomIndex + 1] : randomIndex \in 0 .. (Len(indices) - 1) }

\* Suits and ranks of the cards in the hands given to the strategies.
StrategySuits == { AnchorSuit, 2 }
StrategyRanks == { 1, 5, 6, 7, 8, 9, MaxRank }

\* Hands of at most MaxHand distinct cards, in any order.
StrategyHands ==
    LET handCards == { Card(s, r) : s \in StrategySuits, r \in StrategyRanks }
    IN  UNION { { hand \in [ 1 .. n -> handCards ] :
                    \A i, j \in 1 .. n : i # j => hand[i] # hand[j] }
                : n \in 0 .. MaxHand }

\* Tables given to the strategies: the empty map, a table with a partly
\* filled Diamonds row only, the reset table, and tables with a run of
\* Diamonds and nothing, the 7 or 6..8 of Hearts.
StrategyTables ==
    { <<>>, Put(<<>>, AnchorSuit, Put(Put(<<>>, 7, TRUE), 8, FALSE)), ResetLayout }
    \cup { [ s \in Suits |-> IF s = AnchorSuit THEN [ r \in Ranks |-> lo <= r /\ r <= hi ]
                              ELSE IF s = 2 THEN [ r \in Ranks |-> r \in hearts ]
                              ELSE [ r \in Ranks |-> FALSE ] ] :
            lo \in { 1, 5, 6, 7 }, hi \in { 7, 8, 9, MaxRank },
            hearts \in { {}, { 7 }, { 6, 7, 8 } } }

\* A player holds a hand at a table and is about to be asked for a move.
InitStrategy ==
    /\ pc = "strategy"
    /\ cards_hashmap = <<>>
    /\ table_layout \in StrategyTables
    /\ player_strategies = <<>>
    /\ initialized = <<>>
    /\ \E hand \in StrategyHands : player_hands = Put(<<>>, 0, hand)
    /\ player_total_cards = <<>>
    /\ player_rounds_won = <<>>
    /\ total_rounds = 0
    /\ matches = 0
    /\ cards = <<>>
    /\ player_order = <<0>>
    /\ current_player_idx = 0
    /\ consecutive_passes = 0
    /\ winner = UINT64_MAX
    /\ last_turn = NoTurn
    /\ notifications = <<>>
    /\ result = NoResult
    /\ probe = NoProbe

\* The hand and the table are given to a strategy, whose return is recorded.
Selects(strategy, card_idx) ==
    /\ pc = "strategy"
    /\ last_turn = NoTurn
    /\ last_turn' = [player |-> 0, card_idx |-> card_idx, outcome |-> strategy,
                     shown |-> [hand |-> player_hands[0], table |-> table_layout]]
    /\ UNCHANGED << pc, cards_hashmap, table_layout, player_strategies, initialized,
                    player_hands, statistics, matches, cards, roundLocals,
                    notifications, result, probe >>

GreedySelects ==
    Selects("greedy", GreedyStrategy_selectCardToPlay(player_hands[0], table_layout))

RandomSelects ==
    \E card_idx \in RandomStrategy_selectCardToPlay(player_hands[0], table_layout) :
        Selects("random", card_idx)

NextStrategy == GreedySelects \/ RandomSelects

StrategySpec == InitStrategy /\ [][NextStrategy]_vars

\* ------------------------------------------------- rounds on a full deck

\* A complete deck in file order: every rank of the span in every suit, so
\* that no card between a suit's 7 and its outermost card is missing.
CompleteDeck(suitCount, span) ==
    LET width == 2 * span + 1
    IN  [ k \in 1 .. (suitCount * width) |->
            Card(AnchorSuit + ((k - 1) \div width),
                 AnchorRank - span + ((k - 1) % width)) ]

\* A new mapper whose host has read the file of a deck.
InitWithDeck(deck) ==
    /\ pc = "idle"
    /\ cards_hashmap = deck
    /\ table_layout = <<>>
    /\ player_strategies = <<>>
    /\ initialized = <<>>
    /\ player_hands = <<>>
    /\ player_total_cards = <<>>
    /\ player_rounds_won = <<>>
    /\ total_rounds = 0
    /\ matches = 0
    /\ cards = <<>>
    /\ player_order = <<>>
    /\ current_player_idx = 0
    /\ consecutive_passes = 0
    /\ winner = UINT64_MAX
    /\ last_turn = NoTurn
    /\ notifications = <<>>
    /\ result = NoResult
    /\ probe = NoProbe

InitFull == InitWithDeck(CompleteDeck(1, RunSpan))

\* compute_game_progress(numPlayers) on the complete deck, the strategies
\* returning anything.
NextFull ==
    \/ \E numPlayers \in 1 .. MaxPlayers : StartMatch(numPlayers, FALSE)
    \/ BeginRound
    \/ Turn
    \/ EndRound

FullSpec == InitFull /\ [][NextFull]_vars

\* One iteration of playRound's loop when the acting slot's strategy is the
\* RandomStrategy that ensureStrategies registers.
RandomTurn ==
    /\ pc = "turn"
    /\ LET playerID == player_order[current_player_idx + 1]
       IN  IF player_hands[playerID] = <<>>
           THEN SkipTurn
           ELSE /\ IF playerID \notin StrategyIds
                   THEN CrashTurn(playerID, PassSentinel)
                   ELSE \E ret \in RandomStrategy_selectCardToPlay(
                                      player_hands[playerID], table_layout) :
                            TakeTurn(playerID, ret)
                /\ UNCHANGED player_order
    /\ cards' = <<>>
    /\ UNCHANGED << cards_hashmap, player_strategies, initialized, statistics,
                    matches, result, probe >>

\* Matches on the complete deck between the strategies ensureStrategies
\* registers.
NextBuiltIn ==
    \/ \E numPlayers \in 0 .. MaxPlayers, displayOutput \in BOOLEAN :
          StartMatch(numPlayers, displayOutput)
    \/ BeginRound
    \/ RandomTurn
    \/ EndRound

InitBuiltIn == InitWithDeck(CompleteDeck(FullSuitCount, FullSpan))

BuiltInSpec == InitBuiltIn /\ [][NextBuiltIn]_vars

\* playRound's loop keeps taking turns while the round is not over.
FairBuiltInSpec == BuiltInSpec /\ WF_vars(RandomTurn)

\* ------------------------------------------------ standings of matches

\* The lifetime totals of the slots 0 .. n-1 when a match ends: some total
\* has reached the threshold.
MatchEndTotals ==
    UNION { { totals \in [ 0 .. (n - 1) -> (Threshold - 1) .. (Threshold + 1) ] :
                \E id \in DOMAIN totals : totals[id] >= Threshold }
            : n \in 1 .. MaxPlayers }

\* What a match that ends with the lifetime totals `totals` returns:
\* getFinalStandings() of them.
MatchReturns(totals, displayOutput) ==
    { [call |-> EntryPoint(displayOutput), kind |-> "standings",
       standings |-> standings, what |-> ""] :
      standings \in getFinalStandings(totals) }

\* A match has ended and returned.
InitStandings ==
    /\ pc = "standings"
    /\ cards_hashmap = <<>>
    /\ table_layout = <<>>
    /\ initialized = <<>>
    /\ player_hands = <<>>
    /\ total_rounds = 0
    /\ matches = 0
    /\ cards = <<>>
    /\ player_order = <<>>
    /\ current_player_idx = 0
    /\ consecutive_passes = 0
    /\ winner = UINT64_MAX
    /\ last_turn = NoTurn
    /\ notifications = <<>>
    /\ probe = NoProbe
    /\ \E totals \in MatchEndTotals, displayOutput \in BOOLEAN :
          /\ player_total_cards = totals
          /\ player_rounds_won = [ id \in DOMAIN totals |-> 0 ]
          /\ player_strategies = SortedSeq(DOMAIN totals)
          /\ result \in MatchReturns(totals, displayOutput)

\* Another match ends and returns.
AnotherMatchReturns ==
    /\ pc = "standings"
    /\ \E totals \in MatchEndTotals, displayOutput \in BOOLEAN :
          /\ player_total_cards' = totals
          /\ player_rounds_won' = [ id \in DOMAIN totals |-> 0 ]
          /\ player_strategies' = SortedSeq(DOMAIN totals)
          /\ result' \in MatchReturns(totals, displayOutput)
    /\ UNCHANGED << pc, cards_hashmap, table_layout, initialized, player_hands,
                    total_rounds, matches, cards, roundLocals, turnLog, probe >>

StandingsSpec == InitStandings /\ [][AnotherMatchReturns]_vars

\* ------------------------------------------- the tally late in a match

\* Lifetime totals a slot can have when a round of a long match is tallied:
\* none yet, or close below the documented or the coded threshold.
TotalSamples ==
    {0} \cup ((DocumentedThreshold - TotalWindow) .. DocumentedThreshold)
        \cup ((MAX_ACCUMULATED_CARDS - TotalWindow) .. (MAX_ACCUMULATED_CARDS - 1))

\* The ways a two-player round on the card file 7D, 6D, 9D, 10D ends.  Slot 0
\* is dealt two cards and slot 1 one.  Either slot 1 holds the 6 and plays it
\* after slot 0's pass (Resolved, slot 0 keeps the 9 and the 10), or slot 0
\* plays the 6 and both slots pass (Blocked, one card each, the 8 missing).
RoundEnds ==
    LET six == Card(1, 6)
        played == SetCell(ResetLayout, 1, 6)
        resolved(x, y) ==
            [ hands |-> << <<x, y>>, <<>> >>, winner |-> 1, idx |-> 1, passes |-> 1,
              turn |-> [player |-> 1, card_idx |-> 0, outcome |-> "play",
                        shown |-> [hand |-> <<six>>, table |-> ResetLayout]],
              notes |-> << [to |-> 0, type |-> "move", player |-> 1, card |-> six] >> ]
        blocked(x, y, ret) ==
            [ hands |-> << <<x>>, <<y>> >>, winner |-> UINT64_MAX, idx |-> 0, passes |-> 2,
              turn |-> [player |-> 0, card_idx |-> ret, outcome |-> "pass",
                        shown |-> [hand |-> <<x>>, table |-> played]],
              notes |-> << [to |-> 1, type |-> "pass", player |-> 0, card |-> NoCard] >> ]
        rest == { <<Card(1, 9), Card(1, 10)>>, <<Card(1, 10), Card(1, 9)>> }
    IN  { resolved(r[1], r[2]) : r \in rest }
        \cup { blocked(r[1], r[2], ret) : r \in rest, ret \in {PassSentinel, 1} }

\* playRound has just returned in a later round of a two-player match: each
\* earlier round was won by slot 1 (two cards to slot 0's total) or Blocked
\* (one card to each total).
InitTally ==
    /\ pc = "tally"
    /\ cards_hashmap = << Anchor, Card(1, 6), Card(1, 9), Card(1, 10) >>
    /\ player_strategies = << 0, 1 >>
    /\ initialized = [ id \in {0, 1} |-> << id >> ]
    /\ matches = 1
    /\ cards = <<>>
    /\ probe = NoProbe
    /\ player_order = << 0, 1 >>
    /\ \E displayOutput \in BOOLEAN :
          result = [call |-> EntryPoint(displayOutput), kind |-> "running",
                    standings |-> <<>>, what |-> ""]
    /\ \E t0 \in TotalSamples, t1 \in TotalSamples :
          /\ t1 <= t0
          /\ (t0 - t1) % 2 = 0
          /\ player_total_cards = [ id \in {0, 1} |-> IF id = 0 THEN t0 ELSE t1 ]
          /\ player_rounds_won = [ id \in {0, 1} |-> IF id = 0 THEN 0 ELSE (t0 - t1) \div 2 ]
          /\ total_rounds = ((t0 - t1) \div 2) + t1 + 1
    /\ \E end \in RoundEnds :
          /\ player_hands = [ id \in {0, 1} |-> end.hands[id + 1] ]
          /\ table_layout = SetCell(ResetLayout, 1, 6)
          /\ winner = end.winner
          /\ current_player_idx = end.idx
          /\ consecutive_passes = end.passes
          /\ last_turn = end.turn
          /\ notifications = end.notes

\* The tally with the threshold of the code.
NextTally == Tally(MAX_ACCUMULATED_CARDS)

TallySpec == InitTally /\ [][NextTally]_vars

\* The engine's loop never stops by itself between the start of a match and
\* its return: the program is one thread that runs each step to the next.
FairSpec == Spec /\ WF_vars(BeginRound \/ Turn \/ EndRound)

\* ------------------------------------------------------------ claims

\* The player whose turn it is at the head of playRound's loop.
Actor == player_order[current_player_idx + 1]

\* A step of the Turn action in which the acting slot's strategy is asked
\* for a card: a turn.
TurnStep ==
    /\ pc = "turn"
    /\ player_hands[Actor] # <<>>
    /\ Actor \in StrategyIds

\* C1: every round reaches Resolved or Blocked after finitely many turns,
\* whatever the strategies return: playRound's loop is always left.
C1_RoundTerminates == (pc = "turn") ~> (pc # "turn")

\* What an explicit pass by the acting player does to the round.
ExplicitPassEffect ==
    LET passes == (consecutive_passes + 1) % PassModulus
        blocked == passes >= Len(player_order) /\ gameBlocked
    IN  /\ table_layout' = table_layout
        /\ player_hands' = player_hands
        /\ notifications' = Notify(Actor, "pass", NoCard)
        /\ consecutive_passes' = passes
        /\ winner' = winner
        /\ pc' = IF blocked THEN "tally" ELSE "turn"
        /\ current_player_idx' = IF blocked THEN current_player_idx ELSE NextPlayerIdx

\* C2: a turn whose returned index is in range and denotes an unplayable
\* card leaves table and hands unchanged, notifies observePass(actor) as an
\* explicit pass does, adds one to the consecutive-pass counter, and differs
\* from an explicit pass in nothing else.
C2_InvalidMoveIsAPass ==
    [][ (TurnStep /\ last_turn'.card_idx >= 0
                  /\ last_turn'.card_idx < Len(player_hands[Actor])
                  /\ ~isPlayable(player_hands[Actor][last_turn'.card_idx + 1], table_layout))
        => ExplicitPassEffect ]_vars

\* C3: every returned index that is no position of the acting hand (at or
\* past the end, or negative other than -1) is a pass: no hand element is
\* read or removed, the table is unchanged, observePass goes to the others.
C3_OutOfRangeIsAPass ==
    [][ (TurnStep /\ last_turn'.card_idx # -1
                  /\ (last_turn'.card_idx < 0 \/ last_turn'.card_idx >= Len(player_hands[Actor])))
        => /\ last_turn'.outcome = "pass"
           /\ table_layout' = table_layout
           /\ player_hands' = player_hands
           /\ notifications' = Notify(Actor, "pass", NoCard) ]_vars

\* The face-up cells of a table: the entries that are present and true.
FaceUp(layout) ==
    { <<s, r>> \in Suits \X Ranks :
        s \in DOMAIN layout /\ r \in DOMAIN layout[s] /\ layout[s][r] = TRUE }

\* The rule of the game: a 7 is playable iff its own cell is not face-up; any
\* other card iff a neighbouring cell of its suit that exists is face-up.
ReferenceRule(card, layout) ==
    IF card.rank = 7
    THEN <<card.suit, 7>> \notin FaceUp(layout)
    ELSE \E n \in {card.rank - 1, card.rank + 1} \cap Ranks :
            <<card.suit, n>> \in FaceUp(layout)

\* C4: isPlayable agrees with the reference rule on every card and table,
\* a missing table entry counting as not face-up.
C4_IsPlayableIsTheRule ==
    probe.asked => (probe.playable <=> ReferenceRule(probe.card, table_layout))

\* A King was found playable on a table whose row has no entry for rank 13.
C4_Witness ==
    /\ probe.asked
    /\ probe.card.rank = 13
    /\ probe.playable
    /\ probe.card.suit \in DOMAIN table_layout
    /\ 13 \notin DOMAIN table_layout[probe.card.suit]

\* C5: across every turn no true cell becomes false, and a cell changes
\* only by a valid play: the acting player's card at the returned index,
\* playable, and only that card's cell.
C5_TableMonotonic ==
    [][ TurnStep =>
          /\ FaceUp(table_layout) \subseteq FaceUp(table_layout')
          /\ (table_layout' # table_layout =>
                /\ last_turn'.card_idx >= 0
                /\ last_turn'.card_idx < Len(player_hands[Actor])
                /\ LET played == player_hands[Actor][last_turn'.card_idx + 1]
                   IN  /\ isPlayable(played, table_layout)
                       /\ FaceUp(table_layout') =
                             FaceUp(table_layout) \cup {<<played.suit, played.rank>>}) ]_vars

\* Some hand of the round holds a card that is playable.
SomeCardPlayable ==
    \E id \in DOMAIN player_hands :
        \E c \in Range(player_hands[id]) : isPlayable(c, table_layout)

\* The round has returned with no winner.
RoundBlocked == pc = "tally" /\ winner = UINT64_MAX

\* C6: the round is reported Blocked only when no hand holds a playable card
\* and the consecutive-pass counter is at least the number of players in
\* the round.
C6_BlockedOnlyWhenDeadlocked ==
    RoundBlocked =>
        /\ ~SomeCardPlayable
        /\ consecutive_passes >= Len(player_order)

\* A two-player round ended Blocked.
C6_Witness == RoundBlocked /\ Len(player_order) = 2

\* The turn's returned index is a position of the acting hand and the card
\* there is playable: a valid play.
ValidPlay(ret) ==
    /\ ret >= 0
    /\ ret < Len(player_hands[Actor])
    /\ isPlayable(player_hands[Actor][ret + 1], table_layout)

\* C7: a round ends Resolved(winner = p) exactly on the turn in which p's
\* valid play removes p's last card; then p's hand is empty, every other
\* dealt hand is non-empty, p is the winner returned and the loop is left.
C7_ResolvedOnLastCard ==
    [][ TurnStep =>
          LET resolved == pc' = "tally" /\ winner' # UINT64_MAX
              lastCard == ValidPlay(last_turn'.card_idx) /\ Len(player_hands[Actor]) = 1
          IN  /\ resolved <=> lastCard
              /\ resolved =>
                    /\ winner' = Actor
                    /\ player_hands'[Actor] = <<>>
                    /\ \A id \in (DOMAIN player_hands') \ {Actor} : player_hands'[id] # <<>> ]_vars

\* The hand dealt to slot i, empty when the slot got no card.
Held(i) == IF i \in DOMAIN player_hands THEN player_hands[i] ELSE <<>>

\* dealCards has just returned: its shuffled vector is still in view.
JustDealt == pc = "turn" /\ cards # <<>>

\* C8: after dealCards with N slots the hands are fresh, pairwise disjoint,
\* together exactly the deck minus the 7 of Diamonds, slot i holds the
\* shuffled cards at positions i, i+N, i+2N, ..., and sizes differ by at
\* most one.
C8_DealPartitionsDeck ==
    JustDealt =>
        LET N == Len(player_strategies)
            slots == 0 .. (N - 1)
        IN  /\ DOMAIN player_hands \subseteq slots
            /\ \A j \in 0 .. (Len(cards) - 1) :
                  /\ Len(Held(j % N)) >= (j \div N) + 1
                  /\ Held(j % N)[(j \div N) + 1] = cards[j + 1]
            /\ \A i \in slots :
                  /\ Len(Held(i)) = Cardinality({ j \in 0 .. (Len(cards) - 1) : j % N = i })
                  /\ Cardinality(Range(Held(i))) = Len(Held(i))
                  /\ Anchor \notin Range(Held(i))
            /\ \A i, k \in slots :
                  /\ i # k => Range(Held(i)) \cap Range(Held(k)) = {}
                  /\ Len(Held(i)) - Len(Held(k)) <= 1
            /\ UNION { Range(Held(i)) : i \in slots } = Range(cards_hashmap) \ {Anchor}

\* The second round of a match has been dealt to two slots, unevenly.
C8_Witness ==
    /\ JustDealt
    /\ total_rounds = 2
    /\ Len(player_strategies) = 2
    /\ Len(Held(0)) = 2
    /\ Len(Held(1)) = 1

\* The observe* calls of a turn that reached the strategy of slot id.
Received(log, id) == SelectSeq(log, LAMBDA n : n.to = id)

\* C9: in every turn each strategy other than the acting slot's receives
\* exactly one notification (observeMove with the actor and the played card
\* for a valid play, observePass with the actor otherwise) and the acting
\* slot's strategy receives none.
C9_OneNotificationEach ==
    [][ TurnStep =>
          LET ret == last_turn'.card_idx
              expected(id) ==
                  IF ValidPlay(ret)
                  THEN [ to |-> id, type |-> "move", player |-> Actor,
                         card |-> player_hands[Actor][ret + 1] ]
                  ELSE [ to |-> id, type |-> "pass", player |-> Actor, card |-> NoCard ]
          IN  \A id \in StrategyIds :
                  Received(notifications', id) =
                      IF id = Actor THEN <<>> ELSE << expected(id) >> ]_vars

\* A match is running: between the entry point's call and its return.
InMatch == pc \in {"round", "turn", "tally"}

\* C10: in every match, a second one on the same mapper included, each
\* slot's strategy has received initialize(id) exactly once for that match,
\* with its own id, before the first round, and gets no further call.
C10_InitializedOncePerMatch ==
    InMatch =>
        \A id \in StrategyIds :
            id \in DOMAIN initialized /\ initialized[id] = << id >>

\* Every slot's total grows in the tally by the size of the hand it holds.
TotalsGrowByHands ==
    /\ DOMAIN player_total_cards' = (DOMAIN player_total_cards) \cup (DOMAIN player_hands)
    /\ \A id \in DOMAIN player_total_cards' :
          player_total_cards'[id] = Get(player_total_cards, id, 0) + Len(Held(id))

\* C11: in the tally of a round that ended Resolved(winner) the winner's
\* rounds-won count grows by exactly one and no other slot's changes; every
\* slot's lifetime total grows by the size of its hand at round end, so the
\* winner's total is unchanged.
C11_ResolvedTally ==
    [][ (pc = "tally" /\ winner # UINT64_MAX) =>
          /\ winner \in DOMAIN player_rounds_won
          /\ DOMAIN player_rounds_won' = DOMAIN player_rounds_won
          /\ player_rounds_won'[winner] = player_rounds_won[winner] + 1
          /\ \A id \in (DOMAIN player_rounds_won) \ {winner} :
                player_rounds_won'[id] = player_rounds_won[id]
          /\ TotalsGrowByHands
          /\ winner \in DOMAIN player_total_cards
          /\ player_total_cards'[winner] = player_total_cards[winner] ]_vars

\* Slot 1 has won both rounds of a match: slot 0 kept two cards each time.
C11_Witness ==
    /\ pc = "idle"
    /\ winner = 1
    /\ total_rounds = 2
    /\ player_rounds_won[1] = 2
    /\ player_rounds_won[0] = 0
    /\ player_total_cards[0] = 4
    /\ player_total_cards[1] = 0

\* C12: in the tally of a round that ended Blocked no rounds-won count
\* changes, every slot's lifetime total grows by the size of its hand, and
\* the outcome is an ordinary value: nothing is thrown and the match goes on
\* to the threshold test (the next round or the return of the standings).
C12_BlockedTally ==
    [][ (pc = "tally" /\ winner = UINT64_MAX) =>
          /\ player_rounds_won' = player_rounds_won
          /\ TotalsGrowByHands
          /\ pc' \in {"round", "idle"}
          /\ result'.kind \in {"running", "standings"}
          /\ (pc' = "idle") <=>
                (\E id \in DOMAIN player_total_cards' :
                    player_total_cards'[id] >= Threshold) ]_vars

\* The first round of a two-player match ended Blocked with one card in each
\* hand, and the match goes on.
C12_Witness ==
    /\ pc = "round"
    /\ total_rounds = 1
    /\ winner = UINT64_MAX
    /\ Len(player_order) = 2
    /\ \A id \in {0, 1} : player_total_cards[id] = 1 /\ player_rounds_won[id] = 0

\* Some slot's lifetime total, as it stands, is at least limit.
SomeTotalAtLeast(totals, limit) == \E id \in DOMAIN totals : totals[id] >= limit

\* C13: the match loop is left in the tally of the first round that brings
\* some slot's lifetime total to the threshold or above, and in no other
\* tally; no round is begun once a total has reached the threshold.
C13_MatchEndsAtThreshold ==
    [][ /\ (pc = "tally" =>
               /\ pc' \in {"round", "idle"}
               /\ (pc' = "idle") <=> SomeTotalAtLeast(player_total_cards', Threshold))
        /\ (total_rounds' = total_rounds + 1 =>
               ~SomeTotalAtLeast(player_total_cards, Threshold)) ]_vars

\* A match was left after its second round, whose tally brought a total
\* from below the threshold exactly to it.
C13_Witness ==
    /\ pc = "idle"
    /\ result.kind = "standings"
    /\ total_rounds = 2
    /\ \E id \in DOMAIN player_total_cards : player_total_cards[id] = Threshold

\* C14: the game ends when a player accumulates 50 cards: the match loop is
\* left in a tally exactly when some slot's lifetime total has reached 50.
C14_ThresholdIsFifty ==
    [][ pc = "tally" =>
          ((pc' = "idle") <=> SomeTotalAtLeast(player_total_cards', DocumentedThreshold)) ]_vars

\* C15: within a match no step lowers a slot's lifetime total: from round
\* to round every total stays or grows.
C15_TotalsNeverDecrease ==
    [][ InMatch =>
          \A id \in DOMAIN player_total_cards :
              /\ id \in DOMAIN player_total_cards'
              /\ player_total_cards'[id] >= player_total_cards[id] ]_vars

\* Two rounds were tallied: a Blocked one (one card each) and one won by
\* slot 1 (two more cards for slot 0, none for slot 1).
C15_Witness ==
    /\ pc = "idle"
    /\ total_rounds = 2
    /\ Get(player_rounds_won, 1, 0) = 1
    /\ Get(player_total_cards, 0, 0) = 3
    /\ Get(player_total_cards, 1, 0) = 1

\* A match has returned its standings and the host has made no call since.
MatchReturned == result.kind = "standings"

\* C16: the list a match returns holds every registered slot exactly once,
\* gives the ranks 1..N each to one slot, and ranks a slot with a strictly
\* smaller lifetime total strictly better (a smaller rank number).
C16_StandingsRankByTotal ==
    MatchReturned =>
        LET standings == result.standings
            N == Cardinality(StrategyIds)
            positions == 1 .. Len(standings)
        IN  /\ Len(standings) = N
            /\ { standings[i][1] : i \in positions } = StrategyIds
            /\ { standings[i][2] : i \in positions } = 1 .. N
            /\ \A i, j \in positions :
                  player_total_cards[standings[i][1]] < player_total_cards[standings[j][1]]
                      => standings[i][2] < standings[j][2]

\* A two-player match returned slot 1 first and slot 0 second, slot 1 having
\* accumulated fewer cards.
C16_Witness ==
    /\ MatchReturned
    /\ result.standings = << <<1, 1>>, <<0, 2>> >>
    /\ player_total_cards[1] < player_total_cards[0]

\* The step is a call of one of the name-indexed entry points.
NameBasedCall ==
    /\ result' # result
    /\ result'.call \in {"compute_game_progress(names)", "compute_and_display_game(names)"}

\* C17: a call of either name-indexed entry point, with any list of names,
\* ends in an explicit error, returns no result, and leaves table, hands,
\* statistics and registered strategies as they were.
C17_NameBasedEntriesFail ==
    [][ NameBasedCall =>
          /\ result'.kind = "error"
          /\ result'.what # ""
          /\ result'.standings = <<>>
          /\ UNCHANGED << table_layout, player_hands, statistics, player_strategies,
                          initialized >> ]_vars

\* compute_and_display_game(names) has thrown on a mapper that had played a
\* match of two rounds.
C17_Witness ==
    /\ result.kind = "error"
    /\ result.call = "compute_and_display_game(names)"
    /\ total_rounds = 2
    /\ player_hands # <<>>
    /\ Cardinality(StrategyIds) = 2

\* C18: compute_game_progress(numPlayers) reports the outcome of one round
\* as finish positions: it returns after a single round, with position 1
\* for that round's winner, and position 0 for every player when the round
\* ended Blocked.
C18_SingleRoundFinishPositions ==
    (MatchReturned /\ result.call = "compute_game_progress") =>
        LET standings == result.standings
            positions == 1 .. Len(standings)
        IN  /\ total_rounds = 1
            /\ winner # UINT64_MAX =>
                  \E i \in positions : standings[i] = << winner, 1 >>
            /\ winner = UINT64_MAX =>
                  \A i \in positions : standings[i][2] = 0

\* What the engine hands to strategies in a turn, written over the acting
\* slot's own hand, the table and the turn's public event only: the
\* selectCardToPlay arguments are the actor's hand and the table, and every
\* notification names the actor and carries no card (a pass) or the card the
\* turn has put on the table (a move).
InputsFromOwnHandAndEvents ==
    /\ last_turn'.player = Actor
    /\ last_turn'.shown = [hand |-> player_hands[Actor], table |-> table_layout]
    /\ \A k \in 1 .. Len(notifications') :
          LET n == notifications'[k]
          IN  /\ DOMAIN n = {"to", "type", "player", "card"}
              /\ n.to \in StrategyIds \ {Actor}
              /\ n.player = Actor
              /\ n.type \in {"move", "pass"}
              /\ n.type = "pass" => n.card = NoCard /\ table_layout' = table_layout
              /\ n.type = "move" =>
                    /\ n.card \in AllCards
                    /\ table_layout' = SetCell(table_layout, n.card.suit, n.card.rank)

\* C19: every selectCardToPlay call for a slot passes only that slot's own
\* hand and the table, and notifications carry only the actor's id and, for
\* a play, the played card; so what a slot's strategy receives is determined
\* by its own hand and the sequence of moves and passes, never by the
\* unplayed cards of the other hands.
C19_OnlyOwnHandIsShown ==
    [][ TurnStep => InputsFromOwnHandAndEvents ]_vars

\* A slot was asked with its two-card hand, played a card, and the move was
\* announced to the other slot, which still holds a card of its own.
C19_Witness ==
    /\ pc = "turn"
    /\ last_turn.outcome = "play"
    /\ Len(last_turn.shown.hand) = 2
    /\ Len(notifications) = 1
    /\ notifications[1].type = "move"
    /\ player_hands[notifications[1].to] # <<>>

\* C20: a pass-type turn (explicit pass, out-of-range index, or index of an
\* unplayable card) that brings the consecutive-pass counter to at least the
\* number of players of the round runs the deadlock scan in that same turn:
\* if no hand holds a playable card, the round ends Blocked at once.
C20_ScanOnEveryPassTypeTurn ==
    [][ (/\ TurnStep
         /\ ~ValidPlay(last_turn'.card_idx)
         /\ consecutive_passes' # consecutive_passes
         /\ consecutive_passes' >= Len(player_order)
         /\ ~SomeCardPlayable)
        => (pc' = "tally" /\ winner' = UINT64_MAX) ]_vars

\* The returned index is the pass sentinel or lies at or past the end of
\* the acting hand: the turn takes the pass branch.
PassReturned(ret) == ret = PassSentinel \/ ret >= Len(player_hands[Actor])

\* C21: when a pass brings the consecutive-pass counter to the number of
\* players and the deadlock scan finds a playable card, the counter is reset
\* to 0; so the counter never exceeds the number of players of the round.
C21_CounterResetAfterScan ==
    [][ TurnStep =>
          /\ (/\ PassReturned(last_turn'.card_idx)
              /\ consecutive_passes + 1 >= Len(player_order)
              /\ SomeCardPlayable)
             => (consecutive_passes' = 0 /\ pc' = "turn")
          /\ consecutive_passes' <= Len(player_order) ]_vars

\* C22: a valid play by slot p of card c that does not empty p's hand
\* removes exactly c from p's hand, sets exactly c's cell to true, resets
\* the consecutive-pass counter to 0 and leaves every other hand and cell as
\* it was; removal, table flip and every notification are all done when
\* the turn ends and the next slot is asked.
C22_ValidPlayFrame ==
    [][ (TurnStep /\ ValidPlay(last_turn'.card_idx) /\ Len(player_hands[Actor]) > 1) =>
          LET ret == last_turn'.card_idx
              hand == player_hands[Actor]
              c == hand[ret + 1]
          IN  /\ DOMAIN player_hands' = DOMAIN player_hands
              /\ Len(player_hands'[Actor]) = Len(hand) - 1
              /\ \A i \in 1 .. (Len(hand) - 1) :
                    player_hands'[Actor][i] = IF i <= ret THEN hand[i] ELSE hand[i + 1]
              /\ \A id \in (DOMAIN player_hands) \ {Actor} :
                    player_hands'[id] = player_hands[id]
              /\ \A s \in Suits, r \in Ranks :
                    OnTable(table_layout', s, r) <=>
                        (OnTable(table_layout, s, r) \/ (s = c.suit /\ r = c.rank))
              /\ consecutive_passes' = 0
              /\ \A id \in StrategyIds \ {Actor} :
                    Received(notifications', id) =
                        << [to |-> id, type |-> "move", player |-> Actor, card |-> c] >>
              /\ winner' = UINT64_MAX
              /\ pc' = "turn"
              /\ current_player_idx' = NextPlayerIdx ]_vars

\* A slot holding two cards has validly played its second one and still
\* holds the first; the round goes on.
C22_Witness ==
    /\ pc = "turn"
    /\ last_turn.outcome = "play"
    /\ last_turn.card_idx = 1
    /\ Len(last_turn.shown.hand) = 2
    /\ player_hands[last_turn.player] = << last_turn.shown.hand[1] >>
    /\ consecutive_passes = 0

\* The id that follows id in the ascending cyclic order of ids.
NextInCycle(id, ids) ==
    LET above == { x \in ids : x > id }
        least(S) == CHOOSE x \in S : \A y \in S : x <= y
    IN  IF above # {} THEN least(above) ELSE least(ids)

\* C23: the first turn of a round goes to the lowest dealt id; after every
\* turn that does not end the round the next slot asked is the next dealt id
\* in ascending cyclic order (it holds cards, so it is not skipped); the
\* order is that of the dealt ids for the whole round.
C23_FixedAscendingRotation ==
    [][ /\ (pc' = "turn" /\ cards' # <<>>) =>
              \A id \in DOMAIN player_hands' : player_order'[current_player_idx' + 1] <= id
        /\ (TurnStep /\ pc' = "turn") =>
              /\ player_order' = player_order
              /\ Range(player_order) = DOMAIN player_hands
              /\ player_order'[current_player_idx' + 1] = NextInCycle(Actor, DOMAIN player_hands)
              /\ player_hands'[player_order'[current_player_idx' + 1]] # <<>> ]_vars

\* In a two-player round slot 1's demoted invalid move has passed the turn
\* back to slot 0.
C23_Witness ==
    /\ pc = "turn"
    /\ Len(player_order) = 2
    /\ last_turn.player = 1
    /\ last_turn.outcome = "invalid"
    /\ Actor = 0

\* C24: the notifications of a turn reach the other slots' strategies in
\* turn order, that is by ascending player id, on every turn.
C24_NotificationsInTurnOrder ==
    [][ TurnStep =>
          \A i, j \in 1 .. Len(notifications') :
              i < j => notifications'[i].to < notifications'[j].to ]_vars

\* C25: every round of a match, the first and each later one, starts with a
\* table whose only true cell is the 7 of Diamonds, whatever the table held
\* when the previous round ended.
C25_RoundStartsAnchorOnly ==
    [][ total_rounds' = total_rounds + 1 =>
          /\ FaceUp(table_layout') = { << AnchorSuit, AnchorRank >> }
          /\ \A s \in Suits, r \in Ranks :
                s \in DOMAIN table_layout' /\ r \in DOMAIN table_layout'[s] ]_vars

\* The second round of a two-player match has been dealt on an anchor-only
\* table; in the first round slot 1 played the 6 of Diamonds and won.
C25_Witness ==
    /\ JustDealt
    /\ total_rounds = 2
    /\ FaceUp(table_layout) = { << AnchorSuit, AnchorRank >> }
    /\ Get(player_rounds_won, 1, 0) = 1
    /\ Get(player_total_cards, 0, 0) = 2

\* A cell next to the card's, in its suit, is face-up.
NeighbourFaceUp(card, layout) ==
    \E n \in {card.rank - 1, card.rank + 1} \cap Ranks :
        << card.suit, n >> \in FaceUp(layout)

\* C26 as stated: at round start exactly one card, the anchor, is playable
\* by virtue of its rank 7; every other card is playable only if a
\* neighbouring cell of its suit is already face-up.
C26_OnlyAnchorPlayableAsSeven ==
    JustDealt =>
        /\ { c \in AllCards : c.rank = 7 /\ isPlayable(c, table_layout) } = { Anchor }
        /\ \A c \in AllCards \ { Anchor } :
              isPlayable(c, table_layout) => NeighbourFaceUp(c, table_layout)

\* C26 as amended: at round start the anchor is the one card face-up and is
\* itself not playable; every other 7 is playable by virtue of its rank; a
\* card of any other rank is playable only if a neighbouring cell of its
\* suit is face-up, which then holds of the 6 and the 8 of Diamonds alone.
C26_SevensButAnchorPlayable ==
    JustDealt =>
        /\ FaceUp(table_layout) = { << Anchor.suit, Anchor.rank >> }
        /\ ~isPlayable(Anchor, table_layout)
        /\ \A c \in AllCards \ { Anchor } :
              /\ c.rank = 7 => isPlayable(c, table_layout)
              /\ c.rank # 7 =>
                    /\ isPlayable(c, table_layout) => NeighbourFaceUp(c, table_layout)
                    /\ isPlayable(c, table_layout) <=>
                          (c.suit = Anchor.suit /\ c.rank \in {6, 8})

\* A round of three players has been dealt: the 7 of Clubs is playable with
\* no card of Clubs face-up, the anchor is not, and a slot holds the 6 of
\* Diamonds, playable next to the anchor.
C26_Witness ==
    /\ JustDealt
    /\ Len(player_order) = 3
    /\ isPlayable(Card(0, 7), table_layout)
    /\ ~isPlayable(Anchor, table_layout)
    /\ \E id \in DOMAIN player_hands :
          \E c \in Range(player_hands[id]) : c.rank = 6 /\ isPlayable(c, table_layout)

\* C27: a valid play of card (s, r) changes the playability of unplayed
\* cards only at (s, r-1) and (s, r+1), which become playable; every other
\* unplayed card is as playable as before.  On the anchor-only table the 6
\* and 8 of Diamonds are playable, and after the 6 is played the 5 becomes
\* playable, the 8 stays playable and the 9 stays unplayable.
C27_PlayOpensOnlyNeighbours ==
    [][ (probe'.asked /\ ~probe.asked) =>
          LET c == probe'.card
              unplayed(x) == << x.suit, x.rank >> \notin FaceUp(table_layout')
              anchorOnly == FaceUp(table_layout) = { << AnchorSuit, AnchorRank >> }
          IN  /\ \A x \in AllCards :
                    unplayed(x) =>
                        IF x.suit = c.suit /\ x.rank \in {c.rank - 1, c.rank + 1}
                        THEN isPlayable(x, table_layout')
                        ELSE isPlayable(x, table_layout') = isPlayable(x, table_layout)
              /\ anchorOnly =>
                    /\ isPlayable(Card(1, 6), table_layout)
                    /\ isPlayable(Card(1, 8), table_layout)
              /\ (anchorOnly /\ c = Card(1, 6)) =>
                    /\ isPlayable(Card(1, 5), table_layout')
                    /\ ~isPlayable(Card(1, 5), table_layout)
                    /\ isPlayable(Card(1, 8), table_layout')
                    /\ ~isPlayable(Card(1, 9), table_layout') ]_vars

\* The 6 of Diamonds has been played on the anchor-only table.
C27_Witness ==
    /\ probe.asked
    /\ probe.card = Card(1, 6)
    /\ FaceUp(table_layout) = { << 1, 6 >>, << 1, 7 >> }

\* C28: slots with equal lifetime totals are ordered in the standings by a
\* fixed secondary key: two matches that end with the same total for every
\* slot return the same standings.
C28_TiesHaveFixedOrder ==
    [][ (MatchReturned /\ MatchReturned' /\ player_total_cards' = player_total_cards)
        => result'.standings = result.standings ]_vars

RECURSIVE SumOver(_, _)
SumOver(map, keys) ==
    IF keys = {} THEN 0
    ELSE LET key == CHOOSE k \in keys : TRUE
         IN  map[key] + SumOver(map, keys \ {key})

RoundsWonSum == SumOver(player_rounds_won, DOMAIN player_rounds_won)

\* C29: total_rounds goes up by exactly one when a round starts and changes
\* nowhere else in a match; the tally of a round adds one to the sum of
\* the slots' rounds-won counts when the round was resolved and nothing
\* when it was blocked; the sum never exceeds total_rounds.
C29_RoundsCountedOnce ==
    [][ /\ (pc = "round" /\ pc' # "round") => total_rounds' = total_rounds + 1
        /\ (pc \in {"turn", "tally"}) => total_rounds' = total_rounds
        /\ (pc = "turn") => player_rounds_won' = player_rounds_won
        /\ (pc = "tally" /\ pc' # "tally") =>
              RoundsWonSum' = RoundsWonSum + (IF winner # UINT64_MAX THEN 1 ELSE 0)
        /\ RoundsWonSum' <= total_rounds' ]_vars

\* A match has returned after two rounds of which one was resolved.
C29_Witness ==
    /\ MatchReturned
    /\ pc = "idle"
    /\ total_rounds = 2
    /\ RoundsWonSum = 1

\* The indices of the hand whose card the engine's isPlayable accepts.
PlayableIndices(hand, layout) ==
    { i \in 0 .. (Len(hand) - 1) : isPlayable(hand[i + 1], layout) }

\* C30: against the engine's isPlayable, GreedyStrategy::selectCardToPlay
\* returns the lowest playable index of the hand, RandomStrategy's returns
\* some playable index, and each returns -1 iff no card of the hand is
\* playable.
C30_BuiltInsFollowTheRule ==
    last_turn.outcome \in {"greedy", "random"} =>
        LET playable == PlayableIndices(last_turn.shown.hand, last_turn.shown.table)
            ret == last_turn.card_idx
        IN  /\ (ret = PassSentinel) <=> (playable = {})
            /\ ret # PassSentinel => ret \in playable
            /\ (last_turn.outcome = "greedy" /\ ret # PassSentinel) =>
                  \A i \in playable : ret <= i

\* The greedy strategy skipped an unplayable first card and returned the
\* second.
C30_Witness ==
    /\ last_turn.outcome = "greedy"
    /\ last_turn.card_idx = 1
    /\ ~isPlayable(last_turn.shown.hand[1], last_turn.shown.table)

\* C31: on a complete deck every state of a round in which a turn is still
\* to be taken has a hand holding a playable card, and no round ends Blocked.
C31_FullDeckNeverBlocks ==
    /\ pc = "turn" => SomeCardPlayable
    /\ ~RoundBlocked

\* The state is inside a round: hands are dealt and the table is in play.
InRound == pc \in {"turn", "tally"}

\* The number of hand positions that hold the card.
TimesHeld(card) ==
    Cardinality({ <<id, i>> \in (DOMAIN player_hands) \X (1 .. Len(cards_hashmap)) :
                    i <= Len(player_hands[id]) /\ player_hands[id][i] = card })

\* The cards still in hands, and the cards dealt at the start of the round.
CardsInHands == { c \in Range(cards_hashmap) : TimesHeld(c) > 0 }

\* C32: in every state of a round each card of the deck is either face-up on
\* the table or in exactly one hand, never both and never in two hands, and
\* the face-up cells are the anchor plus one cell per card that has left
\* the hands (one per valid play).
C32_CardConservation ==
    InRound =>
        /\ \A c \in Range(cards_hashmap) :
              IF OnTable(table_layout, c.suit, c.rank)
              THEN TimesHeld(c) = 0
              ELSE TimesHeld(c) = 1
        /\ Cardinality(FaceUp(table_layout))
              = 1 + Cardinality(DealtCards) - Cardinality(CardsInHands)

\* The face-up ranks of a suit.
FaceUpRanks(layout, suit) == { r \in Ranks : OnTable(layout, suit, r) }

\* The face-up cells of every suit are none, or a run of consecutive ranks
\* that contains the 7.
RunsAroundSevens(layout) ==
    \A suit \in Suits :
        LET up == FaceUpRanks(layout, suit)
        IN  up # {} =>
              /\ 7 \in up
              /\ \A lo, hi \in up : \A r \in lo .. hi : r \in up

C34_NoEmptyHandAtTurn ==
    pc = "turn" => \A id \in DOMAIN player_hands : player_hands[id] # <<>>

\* A turn is about to start in a round of two hands in which a valid play
\* has just been made.
C34_Witness ==
    /\ pc = "turn"
    /\ last_turn.outcome = "play"
    /\ Cardinality(DOMAIN player_hands) = 2

\* C35: whatever ids were registered and whatever numPlayers a match was
\* started with, every slot that is dealt a hand has a registered strategy,
\* so the acting slot of a turn always has one, and (the deck holding a card
\* for each) every registered slot is dealt a hand.
C35_DealtSlotsHaveStrategies ==
    InRound =>
        /\ DOMAIN player_hands \subseteq StrategyIds
        /\ pc = "turn" => Actor \in StrategyIds
        /\ Cardinality(DealtCards) >= Cardinality(StrategyIds)
              => StrategyIds \subseteq DOMAIN player_hands

TotalsSum == SumOver(player_total_cards, DOMAIN player_total_cards)

\* C36: every round adds at least one card to the sum of the slots' lifetime
\* totals, for every number of players from 1 on, so that a match of
\* terminating rounds reaches the threshold after a bounded number of rounds.
C36_EveryRoundAddsACard ==
    [][ (pc = "tally" /\ pc' # "tally") => TotalsSum' >= TotalsSum + 1 ]_vars

\* C37: every match starts from zeroed statistics: when a match starts, also
\* a second one on the same mapper, every slot's lifetime total, every
\* rounds-won count and the round counter are 0, so nothing accumulated in
\* an earlier match enters its standings.
C37_MatchStartsFromZero ==
    [][ matches' = matches + 1 =>
          /\ \A id \in DOMAIN player_total_cards' : player_total_cards'[id] = 0
          /\ \A id \in DOMAIN player_rounds_won' : player_rounds_won'[id] = 0
          /\ total_rounds' = 0 ]_vars

\* The second match on a mapper with two strategies is about to play its
\* first round, the first match having returned.
C37_Witness ==
    /\ matches = 2
    /\ pc = "round"
    /\ total_rounds = 0
    /\ DOMAIN player_total_cards = {0, 1}
    /\ \A id \in DOMAIN player_total_cards : player_total_cards[id] = 0

\* C38: playability of a held card is persistent: a card that is playable
\* while in a hand is still playable after any turn that leaves it in that
\* hand, so a playable card the deadlock scan finds was already playable at
\* its owner's most recent turn.
C38_PlayabilityPersists ==
    [][ TurnStep =>
          \A id \in DOMAIN player_hands :
              \A c \in Range(player_hands[id]) :
                  (isPlayable(c, table_layout) /\ c \in Range(player_hands'[id]))
                      => isPlayable(c, table_layout') ]_vars

\* C39: when every strategy passes only with no playable card in hand and
\* otherwise returns the index of a playable card, every round on a complete
\* deck ends, Resolved with a winner and never Blocked, after at most as many
\* valid plays as cards were dealt (51 for the deck of 52).
C39_ObedientRoundsResolve ==
    /\ [](InRound =>
            Cardinality(FaceUp(table_layout)) - 1 <= Cardinality(DealtCards))
    /\ [](pc = "tally" => winner # UINT64_MAX)
    /\ (pc = "turn") ~> (pc = "tally" /\ winner # UINT64_MAX)

\* A round of three players on the complete deck has ended Resolved, won by
\* slot 2, after a turn in which a slot without a playable card passed.
C39_Witness ==
    /\ pc = "tally"
    /\ winner = 2
    /\ Cardinality(DOMAIN player_hands) = 3
    /\ consecutive_passes > 0

====
